---- MODULE Spec2Model ----
(***************************************************************************)
(* Set Game Server (src/main.py): the game engine (GameRoom), the session  *)
(* directory (ServerState) and the request handlers, as a state machine.   *)
(*                                                                         *)
(* A Card is an immutable value whose four attributes are fixed by its id  *)
(* when the deck is built, so decks and fields hold card ids and CardOf    *)
(* gives the Card object of an id.                                         *)
(***************************************************************************)
EXTENDS Integers, Sequences, FiniteSets, TLC

VARIABLES
    users,          \* ServerState.users: accessToken -> identity
    games,          \* ServerState.games: gameId -> GameRoom
    next_game_id,   \* ServerState.next_game_id
    resp,           \* the response of the last completed request
    calls,          \* the /set/pick calls the worker threads are executing
    check           \* the arguments and the result of a call of is_valid_set

vars == <<users, games, next_game_id, resp, calls, check>>

\* Python's None where the code holds an optional integer (a card, a game
\* id, a score), and where it holds an optional text ("exception": None).
None == -1
NoException == "None"

(***************************************************************************)
(* Bounds of the model.                                                    *)
(***************************************************************************)
\* CreateRoom requests are issued while fewer than MaxRooms rooms exist.
MaxRooms == 2
\* random.shuffle is drawn from the rotations of the built deck by
\* 0..MaxShift in Spec and by 0..MaxGameShift in SpecGame.
MaxShift == 0
MaxGameShift == 1
\* Pick requests name cards among the first PickWindow cards of the field.
PickWindow == 4
\* Pick requests are issued while the resulting score stays in -MaxScore..MaxScore.
MaxScore == 1
\* Add-Extra requests are issued while the field holds at most MaxFieldForAdd cards.
MaxFieldForAdd == 15
\* A Pick naming one id three times is issued while fewer than MaxOrphans
\* cards (modulo the Pick size) have left the room outside a whole triple.
MaxOrphans == 1

\* In Spec, requests are not issued that deal more than MaxDealt cards into
\* a room after its initial deal, that play in more than MaxPlayed rooms or
\* that leave more than MaxScored scores different from 0.
MaxDealt == 3
MaxPlayed == 1
MaxScored == 2

\* In SpecPlay, the deck of the room is shuffled by at most MaxPlayShift
\* places and the participant names one of the first MaxChoices valid Sets
\* of the field.
MaxPlayShift == 5
MaxChoices == 1

\* The access tokens _generate_token can return, the nicknames and passwords
\* Register is called with.
Tokens == {"t1", "t2"}
Nicknames == {"ann"}
Passwords == {"pw"}
\* The nicknames Register is called with in SpecBoard.
BoardNicknames == {"ann", "bob"}
\* The participant of SpecGame.
GamePlayer == "t1"
\* The worker threads that execute /set/pick calls side by side in SpecRace.
Threads == {1, 2}

(***************************************************************************)
(* Program constants.                                                      *)
(***************************************************************************)
AttrValues == <<1, 2, 3>>          \* the lists [1, 2, 3] of _initialize_deck
InitialDeal == 12                  \* range(12) of _deal_initial_cards
FieldTarget == 12                  \* len(self.field) < 12 of pick_set
PickSize == 3                      \* len(card_ids) != 3 of pick_set
EndFieldBelow == 3                 \* len(self.field) < 3 of pick_set
ExtraCards == 3                    \* range(3) of add_cards

(***************************************************************************)
(* Sequence helpers: the list operations the code uses.                    *)
(***************************************************************************)
Min(a, b) == IF a <= b THEN a ELSE b

Range(s) == {s[i] : i \in DOMAIN s}

\* The value of an expression computed once: Only({F(x) : x \in {e}}) is
\* F(e) with e evaluated a single time.
Only(S) == CHOOSE v \in S : TRUE

\* list.pop(): the last element and the list without it.
Last(s) == s[Len(s)]
Front(s) == SubSeq(s, 1, Len(s) - 1)

\* The index of the first occurrence of x in s, 0 when there is none.
IndexOf(s, x) ==
    IF \E i \in DOMAIN s : s[i] = x
    THEN CHOOSE i \in DOMAIN s : s[i] = x /\ \A j \in 1..(i - 1) : s[j] # x
    ELSE 0

\* list.remove(x) on a list that holds x: the first occurrence is dropped.
RemoveFirst(s, x) ==
    Only({SubSeq(s, 1, i - 1) \o SubSeq(s, i + 1, Len(s)) : i \in {IndexOf(s, x)}})

(***************************************************************************)
(* Cards and the deck.                                                     *)
(***************************************************************************)
NumValues == Len(AttrValues)
DeckSize == NumValues * NumValues * NumValues * NumValues

\* The Card built by the card_id-th pass of the nested loops of
\* _initialize_deck: color is the outermost loop, count the innermost.
CardOf(card_id) ==
    [id    |-> card_id,
     color |-> AttrValues[(card_id \div (NumValues * NumValues * NumValues)) + 1],
     shape |-> AttrValues[((card_id \div (NumValues * NumValues)) % NumValues) + 1],
     fill  |-> AttrValues[((card_id \div NumValues) % NumValues) + 1],
     count |-> AttrValues[(card_id % NumValues) + 1]]

\* The deck as the loops append it, before the shuffle.
BuiltDeck == [i \in 1..DeckSize |-> i - 1]

\* One outcome of random.shuffle: the rotation of the deck by s places.
Shuffle(deck, s) ==
    [i \in 1..Len(deck) |-> deck[((i - 1 + s) % Len(deck)) + 1]]

initialize_deck(s) == Shuffle(BuiltDeck, s)

\* The deal loop reading self.deck[-1] where the code pops.
RECURSIVE Deal_copying(_, _, _)
Deal_copying(deck, field, n) ==
    IF n = 0 \/ deck = <<>>
    THEN [deck |-> deck, field |-> field]
    ELSE Deal_copying(deck, Append(field, Last(deck)), n - 1)

\* n times: if the deck is not empty, move its last card to the end of the field.
RECURSIVE Deal(_, _, _)
Deal(deck, field, n) ==
    IF n = 0 \/ deck = <<>>
    THEN [deck |-> deck, field |-> field]
    ELSE Deal(Front(deck), Append(field, Last(deck)), n - 1)

deal_initial_cards(deck) == Deal(deck, <<>>, InitialDeal)

\* GameRoom.__init__ with the shuffle outcome s.  players is the dict
\* accessToken -> score, player_order its insertion order.
GameRoom(game_id, s) ==
    Only({[game_id      |-> game_id,
           deck         |-> d.deck,
           field        |-> d.field,
           players      |-> <<>>,
           player_order |-> <<>>,
           status       |-> "ongoing"]
          : d \in {deal_initial_cards(initialize_deck(s))}})

\* add_player without its membership test.
add_player_resetting(room, access_token) ==
    [room EXCEPT !.players = [t \in DOMAIN room.players \cup {access_token} |->
                                IF t = access_token THEN 0 ELSE room.players[t]],
                 !.player_order = IF access_token \in DOMAIN room.players
                                  THEN room.player_order
                                  ELSE Append(room.player_order, access_token)]

add_player(room, access_token) ==
    IF access_token \notin DOMAIN room.players
    THEN [room EXCEPT !.players = [t \in DOMAIN room.players \cup {access_token} |->
                                     IF t = access_token THEN 0 ELSE room.players[t]],
                      !.player_order = Append(room.player_order, access_token)]
    ELSE room

get_card_by_id(field, card_id) ==
    Only({IF i # 0 THEN field[i] ELSE None : i \in {IndexOf(field, card_id)}})

\* check_property comparing neighbours only.
check_property_neighbours(v1, v2, v3) ==
    (v1 = v2 /\ v2 = v3) \/ (v1 # v2 /\ v2 # v3)

check_property(v1, v2, v3) ==
    (v1 = v2 /\ v2 = v3) \/ (v1 # v2 /\ v1 # v3 /\ v2 # v3)

is_valid_set(c1, c2, c3) ==
    /\ check_property(CardOf(c1).color, CardOf(c2).color, CardOf(c3).color)
    /\ check_property(CardOf(c1).shape, CardOf(c2).shape, CardOf(c3).shape)
    /\ check_property(CardOf(c1).fill, CardOf(c2).fill, CardOf(c3).fill)
    /\ check_property(CardOf(c1).count, CardOf(c2).count, CardOf(c3).count)

(***************************************************************************)
(* GameRoom.pick_set and GameRoom.add_cards.  A call ends by returning or  *)
(* by raising: raised is NoException or the text of the exception, room   *)
(* is the room as the call leaves it, and a call that returns gives        *)
(* is_set and score.                                                       *)
(***************************************************************************)
ValueErrorText == "list.remove(x): x not in list"
KeyErrorText == "KeyError"

\* The removal loop skipping a card that is no longer in the field.
RECURSIVE remove_cards_lenient(_, _)
remove_cards_lenient(field, cards) ==
    IF cards = <<>>
    THEN [field |-> field, raised |-> NoException]
    ELSE IF IndexOf(field, Head(cards)) = 0
         THEN remove_cards_lenient(field, Tail(cards))
         ELSE remove_cards_lenient(RemoveFirst(field, Head(cards)), Tail(cards))

\* for card in cards: self.field.remove(card).  list.remove raises
\* ValueError when the card is not in the list; the cards removed before
\* stay removed.
RECURSIVE remove_cards(_, _)
remove_cards(field, cards) ==
    IF cards = <<>>
    THEN [field |-> field, raised |-> NoException]
    ELSE IF IndexOf(field, Head(cards)) = 0
         THEN [field |-> field, raised |-> ValueErrorText]
         ELSE remove_cards(RemoveFirst(field, Head(cards)), Tail(cards))

\* The refill loop with <= in place of <.
RECURSIVE refill_once_more(_, _)
refill_once_more(deck, field) ==
    IF Len(field) <= FieldTarget /\ deck # <<>>
    THEN refill_once_more(Front(deck), Append(field, Last(deck)))
    ELSE [deck |-> deck, field |-> field]

\* while len(self.field) < 12 and self.deck: self.field.append(self.deck.pop())
RECURSIVE refill(_, _)
refill(deck, field) ==
    IF Len(field) < FieldTarget /\ deck # <<>>
    THEN refill(Front(deck), Append(field, Last(deck)))
    ELSE [deck |-> deck, field |-> field]

\* if not self.deck and len(self.field) < 3: self.status = "ended"
check_ended(room) ==
    IF room.deck = <<>> /\ Len(room.field) < EndFieldBelow
    THEN [room EXCEPT !.status = "ended"]
    ELSE room

\* return is_set, self.players[access_token]
pick_return(room, access_token, is_set) ==
    IF access_token \in DOMAIN room.players
    THEN [room |-> room, raised |-> NoException, is_set |-> is_set,
          score |-> room.players[access_token]]
    ELSE [room |-> room, raised |-> KeyErrorText]

\* The branch of pick_set taken when the three cards form a set.
pick_matched(room, access_token, cards) ==
    Only({IF rm.raised # NoException
          THEN [room |-> [room EXCEPT !.field = rm.field], raised |-> rm.raised]
          ELSE IF access_token \notin DOMAIN room.players
          THEN [room |-> [room EXCEPT !.field = rm.field], raised |-> KeyErrorText]
          ELSE Only({pick_return(check_ended([room EXCEPT
                                     !.players[access_token] = @ + 1,
                                     !.deck = rf.deck,
                                     !.field = rf.field]), access_token, TRUE)
                     : rf \in {refill(room.deck, rm.field)}})
          : rm \in {remove_cards(room.field, cards)}})

\* The else branch without its penalty.
pick_unmatched_free(room, access_token) ==
    IF access_token \notin DOMAIN room.players
    THEN [room |-> room, raised |-> KeyErrorText]
    ELSE pick_return(room, access_token, FALSE)

\* The branch of pick_set taken when they do not.
pick_unmatched(room, access_token) ==
    IF access_token \notin DOMAIN room.players
    THEN [room |-> room, raised |-> KeyErrorText]
    ELSE pick_return([room EXCEPT !.players[access_token] = @ - 1], access_token, FALSE)

pick_set(room, access_token, card_ids) ==
    IF Len(card_ids) # PickSize
    THEN pick_return(room, access_token, FALSE)
    ELSE Only({IF None \in Range(cards)
               THEN pick_return(room, access_token, FALSE)
               ELSE IF is_valid_set(cards[1], cards[2], cards[3])
                    THEN pick_matched(room, access_token, cards)
                    ELSE pick_unmatched(room, access_token)
               : cards \in {[i \in 1..PickSize |->
                                get_card_by_id(room.field, card_ids[i])]}})

\* add_cards popping the deck without appending to the field.
add_cards_dropping(room) ==
    Only({[room EXCEPT !.deck = d.deck]
          : d \in {Deal(room.deck, room.field, ExtraCards)}})

\* add_cards with a loop of one turn more.
add_cards_one_more(room) ==
    Only({[room EXCEPT !.deck = d.deck, !.field = d.field]
          : d \in {Deal(room.deck, room.field, ExtraCards + 1)}})

\* add_cards putting the room back into play.
add_cards_reopening(room) ==
    Only({[room EXCEPT !.deck = d.deck, !.field = d.field, !.status = "ongoing"]
          : d \in {Deal(room.deck, room.field, ExtraCards)}})

add_cards(room) ==
    Only({[room EXCEPT !.deck = d.deck, !.field = d.field]
          : d \in {Deal(room.deck, room.field, ExtraCards)}})

(***************************************************************************)
(* ServerState.                                                            *)
(***************************************************************************)
\* d[k] = v on a dict.
DictSet(d, k, v) == [x \in DOMAIN d \cup {k} |-> IF x = k THEN v ELSE d[x]]

register_user(us, nickname, password, access_token) ==
    DictSet(us, access_token,
            [nickname |-> nickname, password |-> password, current_game_id |-> None])

verify_token(access_token) == access_token \in DOMAIN users

\* get_user_game handing out the first room to every token that is in a room.
get_user_game_first(access_token) ==
    IF users[access_token].current_game_id = None THEN None
    ELSE IF 0 \in DOMAIN games THEN 0 ELSE None

\* get_user_game: the id of the room the call returns, None when it returns None.
get_user_game(access_token) ==
    LET game_id == users[access_token].current_game_id
    IN  IF game_id = None THEN None
        ELSE IF game_id \in DOMAIN games THEN game_id ELSE None

(***************************************************************************)
(* Responses.  Every handler answers {"success", "exception", ...}; the    *)
(* payload holds the other keys of a successful answer.                    *)
(***************************************************************************)
Failure(message) ==
    [success |-> FALSE, message |-> message, payload |-> <<>>]

Success(payload) ==
    [success |-> TRUE, message |-> NoException, payload |-> payload]

InvalidTokenText == "Invalid access token"
NotInGameText == "User is not in a game"
GameNotFoundText == "Game not found"

(***************************************************************************)
(* The requests the clients issue.                                         *)
(***************************************************************************)
\* The rooms a token's requests reach: its current room, if it has one.
CurrentRoomOf(access_token) ==
    IF verify_token(access_token) THEN get_user_game(access_token) ELSE None

\* The triples of increasing positions among the first PickWindow.
WindowTriples ==
    {q \in (1..PickWindow) \X (1..PickWindow) \X (1..PickWindow) :
        q[1] < q[2] /\ q[2] < q[3]}

\* The card ids of the Pick requests issued against a room: the triples of
\* distinct cards among the first PickWindow cards of its field, in the
\* order of the field and with the last of them first, triples that
\* repeat the first card, triples with an id that is not in the field (the
\* next card of the deck, or an id no card has), and lists of 0, 2 and 4 ids.
PickRequests(room) ==
    LET f == room.field
        w == SubSeq(f, 1, Min(PickWindow, Len(f)))
        orphans == (DeckSize - Len(room.deck) - Len(f)) % PickSize
        absent == IF room.deck # <<>> THEN Last(room.deck) ELSE DeckSize
        pos == {q \in WindowTriples : q[3] <= Len(w)}
    IN  {<<w[q[1]], w[q[2]], w[q[3]]>> : q \in pos}
        \cup {<<w[q[3]], w[q[1]], w[q[2]]>> : q \in pos}
        \cup {<<>>}
        \cup (IF Len(f) >= 1 /\ orphans < MaxOrphans THEN {<<f[1], f[1], f[1]>>} ELSE {})
        \cup (IF Len(f) >= 2
              THEN {<<f[1], f[1], f[2]>>, <<f[1], f[2], absent>>, <<absent, f[1], f[2]>>,
                    <<f[1], f[2]>>}
              ELSE {})
        \cup (IF Len(f) >= 4 THEN {<<f[1], f[2], f[3], f[4]>>} ELSE {})

\* The Pick requests of a token that has no room to pick in.
BlindPickRequests == {<<0, 1, 2>>}

ScoreInBounds(room, access_token) ==
    access_token \in DOMAIN room.players
        => room.players[access_token] \in (0 - MaxScore)..MaxScore

(***************************************************************************)
(* The handlers.  Each action is one request handled from its first line   *)
(* to its return, the try/except around it included.                       *)
(***************************************************************************)
\* A worker thread that is executing no call, and no call of is_valid_set.
IdleCall ==
    [pc |-> "idle", access_token |-> "", card_ids |-> <<>>, game_id |-> None,
     cards |-> <<>>, i |-> 0, is_set |-> FALSE, loaded |-> 0, shuffle |-> 0,
     resp |-> Success(<<>>)]
NoCheck == [cards |-> <<>>]

Init ==
    /\ users = <<>>
    /\ games = <<>>
    /\ next_game_id = 0
    /\ resp = Success(<<>>)
    /\ calls = [th \in Threads |-> IdleCall]
    /\ check = NoCheck

\* POST /user/register; access_token is the outcome of _generate_token.
Register(nickname, password, access_token) ==
    /\ users' = register_user(users, nickname, password, access_token)
    /\ resp' = Success([nickname |-> nickname, accessToken |-> access_token])
    /\ UNCHANGED <<games, next_game_id>>

\* create_game with a players dict that all the rooms share.
create_game_sharing(gs, s) ==
    DictSet(gs, next_game_id,
            IF gs = <<>> THEN GameRoom(next_game_id, s)
            ELSE [GameRoom(next_game_id, s) EXCEPT
                     !.players = gs[0].players,
                     !.player_order = gs[0].player_order])

\* ServerState.create_game with the shuffle outcome s.
create_game(gs, s) ==
    DictSet(gs, next_game_id, GameRoom(next_game_id, s))

\* POST /set/room/create
CreateRoom(access_token, s) ==
    IF ~verify_token(access_token)
    THEN /\ resp' = Failure(InvalidTokenText)
         /\ UNCHANGED <<users, games, next_game_id>>
    ELSE /\ next_game_id < MaxRooms
         /\ next_game_id' = next_game_id + 1
         /\ games' = create_game(games, s)
         /\ resp' = Success([gameId |-> next_game_id])
         /\ UNCHANGED users

\* The keys of a dict of integers in the order the handlers insert them.
RECURSIVE KeysInOrder(_)
KeysInOrder(ks) ==
    IF ks = {} THEN <<>>
    ELSE LET m == CHOOSE x \in ks : \A y \in ks : x <= y
         IN  <<m>> \o KeysInOrder(ks \ {m})

\* POST /set/room/list
ListRooms(access_token) ==
    /\ resp' = IF ~verify_token(access_token)
               THEN Failure(InvalidTokenText)
               ELSE Success([games |-> KeysInOrder(DOMAIN games)])
    /\ UNCHANGED <<users, games, next_game_id>>

\* The handler with an enter_game that writes the pointer before its test.
EnterRoom_pointing_first(access_token, game_id) ==
    IF ~verify_token(access_token)
    THEN /\ resp' = Failure(InvalidTokenText)
         /\ UNCHANGED <<users, games, next_game_id>>
    ELSE IF game_id \notin DOMAIN games
    THEN /\ resp' = Failure(GameNotFoundText)
         /\ users' = [users EXCEPT ![access_token].current_game_id = game_id]
         /\ UNCHANGED <<games, next_game_id>>
    ELSE /\ users' = [users EXCEPT ![access_token].current_game_id = game_id]
         /\ games' = [games EXCEPT ![game_id] = add_player(@, access_token)]
         /\ resp' = Success([gameId |-> game_id])
         /\ UNCHANGED next_game_id

\* POST /set/room/enter, with ServerState.enter_game
EnterRoom(access_token, game_id) ==
    IF ~verify_token(access_token)
    THEN /\ resp' = Failure(InvalidTokenText)
         /\ UNCHANGED <<users, games, next_game_id>>
    ELSE IF game_id \notin DOMAIN games
    THEN /\ resp' = Failure(GameNotFoundText)
         /\ UNCHANGED <<users, games, next_game_id>>
    ELSE /\ users' = [users EXCEPT ![access_token].current_game_id = game_id]
         /\ games' = [games EXCEPT ![game_id] = add_player(@, access_token)]
         /\ resp' = Success([gameId |-> game_id])
         /\ UNCHANGED next_game_id

\* game.players.get(req.accessToken, 0)
players_get(room, access_token) ==
    IF access_token \in DOMAIN room.players THEN room.players[access_token] ELSE 0

\* POST /set/field
GetField(access_token) ==
    /\ resp' = IF ~verify_token(access_token)
               THEN Failure(InvalidTokenText)
               ELSE IF get_user_game(access_token) = None
               THEN Failure(NotInGameText)
               ELSE LET game == games[get_user_game(access_token)]
                    IN  Success([cards |-> game.field, status |-> game.status,
                                          score |-> players_get(game, access_token)])
    /\ UNCHANGED <<users, games, next_game_id>>

\* POST /set/pick
pick_set_endpoint(access_token, card_ids) ==
    IF ~verify_token(access_token)
    THEN /\ resp' = Failure(InvalidTokenText)
         /\ UNCHANGED <<users, games, next_game_id>>
    ELSE IF get_user_game(access_token) = None
    THEN /\ resp' = Failure(NotInGameText)
         /\ UNCHANGED <<users, games, next_game_id>>
    ELSE LET game_id == get_user_game(access_token)
         IN  \E r \in {pick_set(games[game_id], access_token, card_ids)} :
             /\ games' = [games EXCEPT ![game_id] = r.room]
             /\ resp' = IF r.raised # NoException
                        THEN Failure(r.raised)
                        ELSE Success([isSet |-> r.is_set, score |-> r.score])
             /\ UNCHANGED <<users, next_game_id>>

\* The same handler, on the requests that keep the score of the caller
\* within MaxScore of 0.
Pick(access_token, card_ids) ==
    /\ pick_set_endpoint(access_token, card_ids)
    /\ (verify_token(access_token) /\ get_user_game(access_token) # None)
          => ScoreInBounds(games'[get_user_game(access_token)], access_token)

\* POST /set/add
AddCards(access_token) ==
    IF ~verify_token(access_token)
    THEN /\ resp' = Failure(InvalidTokenText)
         /\ UNCHANGED <<users, games, next_game_id>>
    ELSE IF get_user_game(access_token) = None
    THEN /\ resp' = Failure(NotInGameText)
         /\ UNCHANGED <<users, games, next_game_id>>
    ELSE LET game_id == get_user_game(access_token)
         IN  /\ Len(games[game_id].field) <= MaxFieldForAdd
             /\ games' = [games EXCEPT ![game_id] = add_cards(@)]
             /\ resp' = Success(<<>>)
             /\ UNCHANGED <<users, next_game_id>>

\* users.sort(key=lambda x: x["score"], reverse=True): a stable sort, so
\* entries of equal score keep the order they had.
RECURSIVE InsertByScore(_, _)
InsertByScore(sorted, u) ==
    IF sorted = <<>> THEN <<u>>
    ELSE IF Head(sorted).score >= u.score
         THEN <<Head(sorted)>> \o InsertByScore(Tail(sorted), u)
         ELSE <<u>> \o sorted

\* Sorting upwards and reversing the list, which turns ties around.
RECURSIVE SortByScore_reversing(_)
SortByScore_reversing(us) ==
    IF us = <<>> THEN <<>>
    ELSE IF SortByScore_reversing(Front(us)) = <<>>
            \/ Head(SortByScore_reversing(Front(us))).score > Last(us).score
         THEN SortByScore_reversing(Front(us)) \o <<Last(us)>>
         ELSE <<Last(us)>> \o SortByScore_reversing(Front(us))

RECURSIVE SortByScore(_)
SortByScore(us) ==
    IF us = <<>> THEN <<>>
    ELSE InsertByScore(SortByScore(Front(us)), Last(us))

\* for token, score in game.players.items(): users.append({name, score})
score_entries(room) ==
    [i \in 1..Len(room.player_order) |->
        [name  |-> users[room.player_order[i]].nickname,
         score |-> room.players[room.player_order[i]]]]

\* POST /set/scores
Scores(access_token) ==
    /\ resp' = IF ~verify_token(access_token)
               THEN Failure(InvalidTokenText)
               ELSE IF get_user_game(access_token) = None
               THEN Failure(NotInGameText)
               ELSE LET game == games[get_user_game(access_token)]
                    IN  IF \E t \in DOMAIN game.players : t \notin DOMAIN users
                        THEN Failure(KeyErrorText)
                        ELSE Success([users |-> SortByScore(score_entries(game))])
    /\ UNCHANGED <<users, games, next_game_id>>

\* The Pick requests a token can issue in the current state.
PickRequestsOf(access_token) ==
    IF CurrentRoomOf(access_token) = None
    THEN BlindPickRequests
    ELSE PickRequests(games[CurrentRoomOf(access_token)])

\* Cards dealt to the field of a room after its initial deal, and cards
\* that have left the room.
Dealt(room) == DeckSize - InitialDeal - Len(room.deck)
Removed(room) == DeckSize - Len(room.deck) - Len(room.field)

\* The rooms that have been played in, and the scores that are not 0.
Played == {g \in DOMAIN games : Dealt(games[g]) # 0 \/ Removed(games[g]) # 0}
Scored == {p \in (DOMAIN games) \X Tokens :
              /\ p[2] \in DOMAIN games[p[1]].players
              /\ games[p[1]].players[p[2]] # 0}

(***************************************************************************)
(* Spec: the whole server, its rooms at the start of their games.          *)
(***************************************************************************)
ServerScope ==
    /\ \A g \in DOMAIN games :
          /\ Dealt(games[g]) <= MaxDealt
          /\ Removed(games[g]) % PickSize = 0
    /\ Cardinality(Played) <= MaxPlayed
    /\ Cardinality(Scored) <= MaxScored

Next ==
    \/ \E n \in Nicknames, p \in Passwords, t \in Tokens :
          Register(n, p, t) /\ ServerScope'
             /\ UNCHANGED <<calls, check>>
    \/ \E t \in Tokens, s \in 0..MaxShift : CreateRoom(t, s) /\ ServerScope'
             /\ UNCHANGED <<calls, check>>
    \/ \E t \in Tokens : ListRooms(t) /\ ServerScope'
             /\ UNCHANGED <<calls, check>>
    \/ \E t \in Tokens, g \in 0..MaxRooms : EnterRoom(t, g) /\ ServerScope'
             /\ UNCHANGED <<calls, check>>
    \/ \E t \in Tokens : GetField(t) /\ ServerScope'
             /\ UNCHANGED <<calls, check>>
    \/ \E t \in Tokens : \E ids \in PickRequestsOf(t) : Pick(t, ids) /\ ServerScope'
             /\ UNCHANGED <<calls, check>>
    \/ \E t \in Tokens : AddCards(t) /\ ServerScope'
             /\ UNCHANGED <<calls, check>>
    \/ \E t \in Tokens : Scores(t) /\ ServerScope'
             /\ UNCHANGED <<calls, check>>

Spec == Init /\ [][Next]_vars

(***************************************************************************)
(* SpecGame: one participant playing one room to its end.                  *)
(***************************************************************************)
GameScope == DOMAIN users \subseteq {GamePlayer} /\ DOMAIN games \subseteq {0}

NextGame ==
    \/ \E n \in Nicknames, p \in Passwords, t \in Tokens :
          Register(n, p, t) /\ GameScope'
             /\ UNCHANGED <<calls, check>>
    \/ \E t \in Tokens, s \in 0..MaxGameShift : CreateRoom(t, s) /\ GameScope'
             /\ UNCHANGED <<calls, check>>
    \/ \E t \in Tokens : ListRooms(t) /\ GameScope'
             /\ UNCHANGED <<calls, check>>
    \/ \E t \in Tokens, g \in 0..MaxRooms : EnterRoom(t, g) /\ GameScope'
             /\ UNCHANGED <<calls, check>>
    \/ \E t \in Tokens : GetField(t) /\ GameScope'
             /\ UNCHANGED <<calls, check>>
    \/ \E t \in Tokens : \E ids \in PickRequestsOf(t) : Pick(t, ids) /\ GameScope'
             /\ UNCHANGED <<calls, check>>
    \/ \E t \in Tokens : AddCards(t) /\ GameScope'
             /\ UNCHANGED <<calls, check>>
    \/ \E t \in Tokens : Scores(t) /\ GameScope'
             /\ UNCHANGED <<calls, check>>

SpecGame == Init /\ [][NextGame]_vars

(***************************************************************************)
(* SpecBoard: two participants with different nicknames in one room, at    *)
(* the start of its game.                                                  *)
(***************************************************************************)
BoardScope == ServerScope /\ DOMAIN games \subseteq {0}

NextBoard ==
    \/ \E n \in BoardNicknames, p \in Passwords, t \in Tokens :
          Register(n, p, t) /\ BoardScope'
             /\ UNCHANGED <<calls, check>>
    \/ \E t \in Tokens, s \in 0..MaxShift : CreateRoom(t, s) /\ BoardScope'
             /\ UNCHANGED <<calls, check>>
    \/ \E t \in Tokens : ListRooms(t) /\ BoardScope'
             /\ UNCHANGED <<calls, check>>
    \/ \E t \in Tokens, g \in 0..MaxRooms : EnterRoom(t, g) /\ BoardScope'
             /\ UNCHANGED <<calls, check>>
    \/ \E t \in Tokens : GetField(t) /\ BoardScope'
             /\ UNCHANGED <<calls, check>>
    \/ \E t \in Tokens : \E ids \in PickRequestsOf(t) : Pick(t, ids) /\ BoardScope'
             /\ UNCHANGED <<calls, check>>
    \/ \E t \in Tokens : AddCards(t) /\ BoardScope'
             /\ UNCHANGED <<calls, check>>
    \/ \E t \in Tokens : Scores(t) /\ BoardScope'
             /\ UNCHANGED <<calls, check>>

SpecBoard == Init /\ [][NextBoard]_vars

(***************************************************************************)
(* SpecValidate: GameRoom.is_valid_set called once on each triple of cards *)
(* of the deck.                                                            *)
(***************************************************************************)
CardIds == 0..(DeckSize - 1)

InitValidate ==
    /\ users = <<>>
    /\ games = <<>>
    /\ next_game_id = 0
    /\ resp = Success(<<>>)
    /\ calls = [th \in Threads |-> IdleCall]
    /\ check \in {[cards |-> c] : c \in CardIds \X CardIds \X CardIds}

ValidateTriple ==
    /\ check # NoCheck
    /\ "is_set" \notin DOMAIN check
    /\ check' = [cards |-> check.cards,
                 is_set |-> is_valid_set(check.cards[1], check.cards[2],
                                         check.cards[3])]
    /\ UNCHANGED <<users, games, next_game_id, resp, calls>>

NextValidate == ValidateTriple

SpecValidate == InitValidate /\ [][NextValidate]_vars

(***************************************************************************)
(* SpecRace: two /set/pick calls on one room executed side by side.  The   *)
(* handlers are plain def functions, which the server runs on worker       *)
(* threads without a lock, so a call can be suspended between any two      *)
(* steps of GameRoom.pick_set.  The first call names three cards of the    *)
(* field of a room nobody has played in, the second the same three cards   *)
(* in any order.                                                           *)
(***************************************************************************)
Permutations3(ids) ==
    {<<ids[q[1]], ids[q[2]], ids[q[3]]>> :
        q \in {q \in (1..3) \X (1..3) \X (1..3) :
                  q[1] # q[2] /\ q[1] # q[3] /\ q[2] # q[3]}}

RaceRequests(th, access_token) ==
    IF ~verify_token(access_token) \/ CurrentRoomOf(access_token) = None
    THEN {}
    ELSE IF \A o \in Threads \ {th} : calls[o].pc = "idle"
    THEN {ids \in PickRequestsOf(access_token) :
             /\ Len(ids) = PickSize
             /\ Cardinality(Range(ids)) = PickSize
             /\ Range(ids) \subseteq Range(games[CurrentRoomOf(access_token)].field)
             /\ Dealt(games[CurrentRoomOf(access_token)]) = 0
             /\ Removed(games[CurrentRoomOf(access_token)]) = 0}
    ELSE UNION {IF calls[o].game_id = CurrentRoomOf(access_token)
                THEN Permutations3(calls[o].card_ids) ELSE {}
                : o \in Threads \ {th}}

ReturnCall(th, response) ==
    /\ calls' = [calls EXCEPT ![th].pc = "done", ![th].resp = response]
    /\ resp' = response

\* The handler up to game = state.get_user_game(req.accessToken).
PickBegin(th, access_token, card_ids) ==
    /\ calls[th].pc = "idle"
    /\ verify_token(access_token)
    /\ get_user_game(access_token) # None
    /\ calls' = [calls EXCEPT ![th] =
                    [IdleCall EXCEPT !.pc = "lookup",
                                     !.access_token = access_token,
                                     !.card_ids = card_ids,
                                     !.game_id = get_user_game(access_token)]]
    /\ UNCHANGED <<users, games, next_game_id, resp, check>>

\* pick_set from its first line to is_set = self.is_valid_set(...).
PickLookup(th) ==
    /\ calls[th].pc = "lookup"
    /\ LET c == calls[th]
           room == games[c.game_id]
           cards == [i \in DOMAIN c.card_ids |->
                        get_card_by_id(room.field, c.card_ids[i])]
       IN  IF Len(c.card_ids) # PickSize \/ None \in Range(cards)
           THEN ReturnCall(th, Success([isSet |-> FALSE,
                                        score |-> room.players[c.access_token]]))
           ELSE /\ calls' = [calls EXCEPT
                               ![th].cards = cards,
                               ![th].i = 1,
                               ![th].is_set = is_valid_set(cards[1], cards[2], cards[3]),
                               ![th].pc = IF is_valid_set(cards[1], cards[2], cards[3])
                                          THEN "remove" ELSE "penalty"]
                /\ UNCHANGED resp
    /\ UNCHANGED <<users, games, next_game_id, check>>

\* One turn of: for card in cards: self.field.remove(card).
PickRemove(th) ==
    /\ calls[th].pc = "remove"
    /\ LET c == calls[th]
           room == games[c.game_id]
       IN  IF IndexOf(room.field, c.cards[c.i]) = 0
           THEN /\ ReturnCall(th, Failure(ValueErrorText))
                /\ UNCHANGED games
           ELSE /\ games' = [games EXCEPT ![c.game_id].field =
                                RemoveFirst(@, c.cards[c.i])]
                /\ calls' = [calls EXCEPT
                               ![th].i = @ + 1,
                               ![th].pc = IF c.i = PickSize THEN "score" ELSE "remove"]
                /\ UNCHANGED resp
    /\ UNCHANGED <<users, next_game_id, check>>

\* self.players[access_token] += 1
PickScore(th) ==
    /\ calls[th].pc = "score"
    /\ games' = [games EXCEPT
                    ![calls[th].game_id].players[calls[th].access_token] = @ + 1]
    /\ calls' = [calls EXCEPT ![th].pc = "refill"]
    /\ UNCHANGED <<users, next_game_id, resp, check>>

\* One test of the while condition, and one turn of the loop when it holds.
PickRefill(th) ==
    /\ calls[th].pc = "refill"
    /\ LET room == games[calls[th].game_id]
       IN  IF Len(room.field) < FieldTarget /\ room.deck # <<>>
           THEN /\ games' = [games EXCEPT
                               ![calls[th].game_id].field = Append(@, Last(room.deck)),
                               ![calls[th].game_id].deck = Front(@)]
                /\ UNCHANGED calls
           ELSE /\ calls' = [calls EXCEPT ![th].pc = "ended"]
                /\ UNCHANGED games
    /\ UNCHANGED <<users, next_game_id, resp, check>>

\* if not self.deck and len(self.field) < 3: self.status = "ended"
PickEnded(th) ==
    /\ calls[th].pc = "ended"
    /\ games' = [games EXCEPT ![calls[th].game_id] = check_ended(@)]
    /\ calls' = [calls EXCEPT ![th].pc = "return"]
    /\ UNCHANGED <<users, next_game_id, resp, check>>

\* self.players[access_token] -= 1
PickPenalty(th) ==
    /\ calls[th].pc = "penalty"
    /\ games' = [games EXCEPT
                    ![calls[th].game_id].players[calls[th].access_token] = @ - 1]
    /\ calls' = [calls EXCEPT ![th].pc = "return"]
    /\ UNCHANGED <<users, next_game_id, resp, check>>

\* return is_set, self.players[access_token], and the handler's answer.
PickReturn(th) ==
    /\ calls[th].pc = "return"
    /\ ReturnCall(th, Success([isSet |-> calls[th].is_set,
                               score |-> games[calls[th].game_id]
                                            .players[calls[th].access_token]]))
    /\ UNCHANGED <<users, games, next_game_id, check>>

\* The room of the race, and the requests that set it up before the calls.
RaceScope ==
    /\ DOMAIN games \subseteq {0}
    /\ \A th \in Threads : calls[th].pc = "idle"

NextRace ==
    \/ \E n \in Nicknames, p \in Passwords, t \in Tokens :
          Register(n, p, t) /\ UNCHANGED <<calls, check>>
             /\ RaceScope'
    \/ \E t \in Tokens, s \in 0..MaxGameShift : CreateRoom(t, s) /\ UNCHANGED <<calls, check>>
             /\ RaceScope'
    \/ \E t \in Tokens, g \in 0..MaxRooms : EnterRoom(t, g) /\ UNCHANGED <<calls, check>>
             /\ RaceScope'
    \/ \E th \in Threads, t \in Tokens : \E ids \in RaceRequests(th, t) :
          PickBegin(th, t, ids)
    \/ \E th \in Threads : PickLookup(th)
    \/ \E th \in Threads : PickRemove(th)
    \/ \E th \in Threads : PickScore(th)
    \/ \E th \in Threads : PickRefill(th)
    \/ \E th \in Threads : PickEnded(th)
    \/ \E th \in Threads : PickPenalty(th)
    \/ \E th \in Threads : PickReturn(th)

SpecRace == Init /\ [][NextRace]_vars

(***************************************************************************)
(* SpecCreate: two /set/room/create calls executed side by side on worker  *)
(* threads, each suspended at will between the statements of               *)
(* ServerState.create_game and inside its += 1, while tokens register and  *)
(* enter the rooms.                                                        *)
(***************************************************************************)
\* The handler up to its call of state.create_game().
CreateBegin(th, access_token, s) ==
    /\ calls[th].pc = "idle"
    /\ IF ~verify_token(access_token)
       THEN ReturnCall(th, Failure(InvalidTokenText))
       ELSE /\ next_game_id < MaxRooms
            /\ calls' = [calls EXCEPT ![th] =
                            [IdleCall EXCEPT !.pc = "read",
                                             !.access_token = access_token,
                                             !.shuffle = s]]
            /\ UNCHANGED resp
    /\ UNCHANGED <<users, games, next_game_id, check>>

\* game_id = self.next_game_id
CreateRead(th) ==
    /\ calls[th].pc = "read"
    /\ calls' = [calls EXCEPT ![th].game_id = next_game_id, ![th].pc = "load"]
    /\ UNCHANGED <<users, games, next_game_id, resp, check>>

\* self.next_game_id += 1: the read of the attribute ...
CreateLoad(th) ==
    /\ calls[th].pc = "load"
    /\ calls' = [calls EXCEPT ![th].loaded = next_game_id, ![th].pc = "store"]
    /\ UNCHANGED <<users, games, next_game_id, resp, check>>

\* ... and the write of the sum.
CreateStore(th) ==
    /\ calls[th].pc = "store"
    /\ next_game_id' = calls[th].loaded + 1
    /\ calls' = [calls EXCEPT ![th].pc = "insert"]
    /\ UNCHANGED <<users, games, resp, check>>

\* self.games[game_id] = GameRoom(game_id)
CreateInsert(th) ==
    /\ calls[th].pc = "insert"
    /\ games' = DictSet(games, calls[th].game_id,
                        GameRoom(calls[th].game_id, calls[th].shuffle))
    /\ calls' = [calls EXCEPT ![th].pc = "created"]
    /\ UNCHANGED <<users, next_game_id, resp, check>>

\* return game_id, and the handler's answer.
CreateReturn(th) ==
    /\ calls[th].pc = "created"
    /\ ReturnCall(th, Success([gameId |-> calls[th].game_id]))
    /\ UNCHANGED <<users, games, next_game_id, check>>

NextCreate ==
    \/ \E n \in Nicknames, p \in Passwords, t \in Tokens :
          Register(n, p, t) /\ UNCHANGED <<calls, check>>
    \/ \E t \in Tokens, g \in 0..MaxRooms :
          EnterRoom(t, g) /\ UNCHANGED <<calls, check>>
    \/ \E th \in Threads, t \in Tokens, s \in 0..MaxGameShift : CreateBegin(th, t, s)
    \/ \E th \in Threads : CreateRead(th)
    \/ \E th \in Threads : CreateLoad(th)
    \/ \E th \in Threads : CreateStore(th)
    \/ \E th \in Threads : CreateInsert(th)
    \/ \E th \in Threads : CreateReturn(th)

SpecCreate == Init /\ [][NextCreate]_vars

(***************************************************************************)
(* SpecPlay: one participant in one room who names a valid Set whenever    *)
(* the field holds one and asks for extra cards whenever it holds none,    *)
(* each of the two requests being issued again and again.                  *)
(***************************************************************************)
\* The pairs of increasing positions of a field of n cards.
FieldPairs(n) == {p \in (1..n) \X (1..n) : p[1] < p[2]}

\* The one card that makes a valid Set with two cards: in each attribute
\* the value of both when they agree, the third value when they differ.
CompletingValue(v1, v2) == (2 * (v1 + v2)) % NumValues
CompletingCard(c1, c2) ==
    (NumValues * NumValues * NumValues)
        * CompletingValue(c1 \div (NumValues * NumValues * NumValues),
                          c2 \div (NumValues * NumValues * NumValues))
    + (NumValues * NumValues)
        * CompletingValue((c1 \div (NumValues * NumValues)) % NumValues,
                          (c2 \div (NumValues * NumValues)) % NumValues)
    + NumValues
        * CompletingValue((c1 \div NumValues) % NumValues,
                          (c2 \div NumValues) % NumValues)
    + CompletingValue(c1 % NumValues, c2 % NumValues)

\* The positions of the valid Sets of a field: for two cards of the field,
\* the position of the card that completes them, when it lies behind both.
ValidTriples(field) ==
    {q \in {<<p[1], p[2], IndexOf(field, CompletingCard(field[p[1]], field[p[2]]))>> :
               p \in FieldPairs(Len(field))} :
        /\ q[3] > q[2]
        /\ is_valid_set(field[q[1]], field[q[2]], field[q[3]])}

\* p comes before q when the triples are listed position by position.
TripleBefore(p, q) ==
    \/ p[1] < q[1]
    \/ p[1] = q[1] /\ p[2] < q[2]
    \/ p[1] = q[1] /\ p[2] = q[2] /\ p[3] < q[3]

\* The card ids of the Pick requests of a participant who names valid Sets
\* only: the first MaxChoices valid Sets of the field, none if it holds none.
PlayRequests(room) ==
    UNION {{<<room.field[q[1]], room.field[q[2]], room.field[q[3]]>> :
              q \in {q \in v : Cardinality({p \in v : TripleBefore(p, q)}) < MaxChoices}} :
           v \in {ValidTriples(room.field)}}

\* POST /set/pick of a participant, naming a valid Set of the field.
PlayPick(access_token) ==
    /\ CurrentRoomOf(access_token) # None
    /\ \E card_ids \in PlayRequests(games[CurrentRoomOf(access_token)]) :
          pick_set_endpoint(access_token, card_ids)

\* POST /set/add of a participant whose field holds no valid Set.
PlayAdd(access_token) ==
    /\ CurrentRoomOf(access_token) # None
    /\ PlayRequests(games[CurrentRoomOf(access_token)]) = {}
    /\ AddCards(access_token)

PlayPickStep ==
    \E t \in Tokens : PlayPick(t) /\ GameScope'
       /\ UNCHANGED <<calls, check>>

PlayAddStep ==
    \E t \in Tokens : PlayAdd(t) /\ GameScope'
       /\ UNCHANGED <<calls, check>>

\* _generate_token returns no token that is the participant of a room.
NextPlay ==
    \/ \E n \in Nicknames, p \in Passwords, t \in Tokens :
          CurrentRoomOf(t) = None /\ Register(n, p, t) /\ GameScope'
             /\ UNCHANGED <<calls, check>>
    \/ \E t \in Tokens, s \in 0..MaxPlayShift : CreateRoom(t, s) /\ GameScope'
             /\ UNCHANGED <<calls, check>>
    \/ \E t \in Tokens, g \in 0..MaxRooms : EnterRoom(t, g) /\ GameScope'
             /\ UNCHANGED <<calls, check>>
    \/ PlayPickStep
    \/ PlayAddStep

\* The participant keeps issuing the request its discipline prescribes, and
\* the server answers every request it receives.
SpecPlay ==
    Init /\ [][NextPlay]_vars /\ WF_vars(PlayPickStep) /\ WF_vars(PlayAddStep)

(***************************************************************************)
(* SpecEnter: /set/room/enter calls executed on worker threads, each       *)
(* suspended at will between the statements of ServerState.enter_game,     *)
(* while tokens register, create the room, pick in it and read its scores. *)
(***************************************************************************)
\* The handler up to its call of state.enter_game().
EnterBegin(th, access_token, game_id) ==
    /\ calls[th].pc = "idle"
    /\ IF ~verify_token(access_token)
       THEN ReturnCall(th, Failure(InvalidTokenText))
       ELSE /\ calls' = [calls EXCEPT ![th] =
                            [IdleCall EXCEPT !.pc = "find",
                                             !.access_token = access_token,
                                             !.game_id = game_id]]
            /\ UNCHANGED resp
    /\ UNCHANGED <<users, games, next_game_id, check>>

\* if game_id not in self.games: return False, and the handler's answer.
EnterFind(th) ==
    /\ calls[th].pc = "find"
    /\ IF calls[th].game_id \notin DOMAIN games
       THEN ReturnCall(th, Failure(GameNotFoundText))
       ELSE /\ calls' = [calls EXCEPT ![th].pc = "point"]
            /\ UNCHANGED resp
    /\ UNCHANGED <<users, games, next_game_id, check>>

\* self.users[access_token]["current_game_id"] = game_id
EnterPoint(th) ==
    /\ calls[th].pc = "point"
    /\ users' = [users EXCEPT ![calls[th].access_token].current_game_id =
                                 calls[th].game_id]
    /\ calls' = [calls EXCEPT ![th].pc = "add"]
    /\ UNCHANGED <<games, next_game_id, resp, check>>

\* self.games[game_id].add_player(access_token)
EnterAdd(th) ==
    /\ calls[th].pc = "add"
    /\ games' = [games EXCEPT ![calls[th].game_id] =
                                 add_player(@, calls[th].access_token)]
    /\ calls' = [calls EXCEPT ![th].pc = "entered"]
    /\ UNCHANGED <<users, next_game_id, resp, check>>

\* return True, and the handler's answer.
EnterReturn(th) ==
    /\ calls[th].pc = "entered"
    /\ ReturnCall(th, Success([gameId |-> calls[th].game_id]))
    /\ UNCHANGED <<users, games, next_game_id, check>>

NextEnter ==
    \/ \E n \in Nicknames, p \in Passwords, t \in Tokens :
          Register(n, p, t) /\ BoardScope'
             /\ UNCHANGED <<calls, check>>
    \/ \E t \in Tokens, s \in 0..MaxShift : CreateRoom(t, s) /\ BoardScope'
             /\ UNCHANGED <<calls, check>>
    \/ \E t \in Tokens : \E ids \in PickRequestsOf(t) : Pick(t, ids) /\ BoardScope'
             /\ UNCHANGED <<calls, check>>
    \/ \E t \in Tokens : Scores(t) /\ BoardScope'
             /\ UNCHANGED <<calls, check>>
    \/ \E th \in Threads, t \in Tokens, g \in 0..MaxRooms : EnterBegin(th, t, g)
    \/ \E th \in Threads : EnterFind(th)
    \/ \E th \in Threads : EnterPoint(th)
    \/ \E th \in Threads : EnterAdd(th)
    \/ \E th \in Threads : EnterReturn(th)

SpecEnter == Init /\ [][NextEnter]_vars

(***************************************************************************)
(* Claims.                                                                 *)
(***************************************************************************)
\* The card ids a room holds, in its deck or in its field.
RoomIds(room) == Range(room.deck) \cup Range(room.field)

\* The response of a Pick that reports a match, and of one that is answered
\* without a match.
ReportsMatch(r) ==
    r.success /\ "isSet" \in DOMAIN r.payload /\ r.payload.isSet
ReportsNoMatch(r) ==
    r.success /\ "isSet" \in DOMAIN r.payload /\ ~r.payload.isSet

\* The ids of a Pick request are three ids of cards of the field.
FoundThree(room, ids) ==
    Len(ids) = PickSize /\ \A i \in DOMAIN ids : ids[i] \in Range(room.field)

\* C1 as claimed: in every reachable state of a room the ids of its deck and
\* its field together are exactly 81 distinct ids.
C1_AlwaysAllIds ==
    \A g \in DOMAIN games : Cardinality(RoomIds(games[g])) = DeckSize

\* C1 as amended: the ids of the deck and the field of a room are pairwise
\* distinct; they are all the 81 ids when the room is created; no step adds
\* an id, and the only step that takes ids away is a Pick on that room,
\* which takes away only ids it names that were in the field.
C1_IdsLeaveOnlyByPick ==
    [][\A g \in DOMAIN games' :
          /\ Cardinality(RoomIds(games'[g]))
                = Len(games'[g].deck) + Len(games'[g].field)
          /\ IF g \notin DOMAIN games
             THEN RoomIds(games'[g]) = 0..(DeckSize - 1)
             ELSE /\ RoomIds(games'[g]) \subseteq RoomIds(games[g])
                  /\ RoomIds(games'[g]) # RoomIds(games[g]) =>
                        \E t \in Tokens : \E ids \in PickRequestsOf(t) :
                            /\ Pick(t, ids)
                            /\ CurrentRoomOf(t) = g
                            /\ (RoomIds(games[g]) \ RoomIds(games'[g]))
                                  \subseteq (Range(ids) \cap Range(games[g].field))
      ]_vars

\* A room from which a matched Pick has just taken its three cards.
C1_Witness ==
    /\ ReportsMatch(resp)
    /\ \E g \in DOMAIN games :
          /\ Removed(games[g]) >= PickSize
          /\ Cardinality(RoomIds(games[g])) = DeckSize - Removed(games[g])

\* The values the three cards of the checked triple have for one attribute.
CheckedColors == {CardOf(check.cards[i]).color : i \in 1..3}
CheckedShapes == {CardOf(check.cards[i]).shape : i \in 1..3}
CheckedFills == {CardOf(check.cards[i]).fill : i \in 1..3}
CheckedCounts == {CardOf(check.cards[i]).count : i \in 1..3}

\* C2: is_valid_set returns true exactly when, for each of count, shape,
\* fill and color, the three values are all equal (one value) or pairwise
\* distinct (three values); it returns false when an attribute has exactly
\* two equal values; and it returns the same for the three cards in every
\* order.
C2_ValidIffEachAttributeAllSameOrAllDifferent ==
    "is_set" \in DOMAIN check =>
        /\ check.is_set
              <=> \A vs \in {CheckedColors, CheckedShapes, CheckedFills, CheckedCounts} :
                     Cardinality(vs) \in {1, 3}
        /\ (\E vs \in {CheckedColors, CheckedShapes, CheckedFills, CheckedCounts} :
               Cardinality(vs) = 2) => ~check.is_set
        /\ \A c \in Permutations3(check.cards) :
               is_valid_set(c[1], c[2], c[3]) = check.is_set

\* is_valid_set has returned true for three different cards that agree in
\* one attribute and differ in another.
C2_Witness ==
    /\ "is_set" \in DOMAIN check
    /\ check.is_set
    /\ Cardinality(Range(check.cards)) = 3
    /\ Cardinality(CheckedColors) = 1
    /\ Cardinality(CheckedCounts) = 3

\* C3: a matched Pick on a field of f cards and a deck of d cards removes
\* the three picked cards from the field and deals
\* k = min(d, max(0, 12 - (f - 3))) cards from the end of the deck to the
\* field: the field then has f - 3 + k cards, the deck d - k, the cards
\* added are the ones that left the deck, and the picked ids are in neither.
C3_MatchedPickRefills ==
    [][\A t \in Tokens : \A ids \in PickRequestsOf(t) :
          (ReportsMatch(resp') /\ Pick(t, ids)) =>
             LET before == games[CurrentRoomOf(t)]
                 after == games'[CurrentRoomOf(t)]
                 f == Len(before.field)
                 d == Len(before.deck)
                 need == 12 - (f - 3)
                 k == Min(d, IF need > 0 THEN need ELSE 0)
             IN  /\ FoundThree(before, ids)
                 /\ Cardinality(Range(ids)) = 3
                 /\ Len(after.field) = f - 3 + k
                 /\ Len(after.deck) = d - k
                 /\ after.deck = SubSeq(before.deck, 1, d - k)
                 /\ Range(after.field)
                      = (Range(before.field) \ Range(ids))
                          \cup {before.deck[i] : i \in (d - k + 1)..d}
                 /\ Range(ids) \cap RoomIds(after) = {}
      ]_vars

\* A matched Pick whose refill stopped one card short of 12 because the deck
\* ran out.
C3_Witness ==
    /\ ReportsMatch(resp)
    /\ \E g \in DOMAIN games :
          /\ games[g].deck = <<>>
          /\ Len(games[g].field) = FieldTarget - 1
          /\ Removed(games[g]) % PickSize # 0

\* The tokens whose score in some room differs before and after a step.
ScoreChanged ==
    {p \in (DOMAIN games) \X Tokens :
        /\ p[2] \in DOMAIN games[p[1]].players
        /\ games'[p[1]].players[p[2]] # games[p[1]].players[p[2]]}

\* What pick_set does with three cards of the field that are no set: it
\* takes one point from the caller and returns the score it has stored.
UnmatchedPickTakesPoint ==
    \A t \in Tokens : CurrentRoomOf(t) # None =>
        \A ids \in PickRequestsOf(t) :
            FoundThree(games[CurrentRoomOf(t)], ids) =>
                \E r \in {pick_set(games[CurrentRoomOf(t)], t, ids)} :
                    (r.raised = NoException /\ ~r.is_set) =>
                        /\ r.score = games[CurrentRoomOf(t)].players[t] - 1
                        /\ r.room.players[t] = r.score

\* C4: the score of a token in a room changes only in a Pick issued by that
\* token while that room is its current room, and by one step at a time:
\* to previous + 1 when the Pick reports a match, to previous - 1 when it
\* reports none, and the score the Pick returns is the stored score.  A
\* Pick that reports a match always adds the point, and a Pick of three
\* cards of the field that are no set always takes one.
C4_ScoreChangesOnlyByOwnPick ==
    /\ []UnmatchedPickTakesPoint
    /\ [][/\ \A p \in ScoreChanged :
                /\ ScoreChanged = {p}
                /\ CurrentRoomOf(p[2]) = p[1]
                /\ "isSet" \in DOMAIN resp'.payload
                /\ resp'.payload.score = games'[p[1]].players[p[2]]
                /\ games'[p[1]].players[p[2]] - games[p[1]].players[p[2]]
                      = IF resp'.payload.isSet THEN 1 ELSE 0 - 1
                /\ \E ids \in PickRequestsOf(p[2]) :
                      FoundThree(games[p[1]], ids) /\ Pick(p[2], ids)
          /\ ReportsMatch(resp') => ScoreChanged # {}
         ]_vars

\* One participant of a room has gained a point by a matched Pick and
\* another has lost one by an unmatched Pick.
C4_Witness ==
    \E g \in DOMAIN games : \E t, u \in DOMAIN games[g].players :
        games[g].players[t] = 1 /\ games[g].players[u] = 0 - 1

\* C5: in every reachable state of a room, status is ended if and only if
\* the deck is empty and the field has fewer than 3 cards.
C5_EndedIffExhausted ==
    \A g \in DOMAIN games :
        (games[g].status = "ended")
            <=> (games[g].deck = <<>> /\ Len(games[g].field) < 3)

\* C6: once the status of a room is ended, it is ended after every further
\* step, its deck stays empty and its field gains no card.
C6_EndedIsTerminal ==
    [][\A g \in DOMAIN games :
          games[g].status = "ended" =>
             /\ games'[g].status = "ended"
             /\ games[g].deck = <<>> /\ games'[g].deck = <<>>
             /\ Range(games'[g].field) \subseteq Range(games[g].field)
             /\ Len(games'[g].field) <= Len(games[g].field)
      ]_vars

\* An ended room that has just answered an Add-Extra.
C6_Witness ==
    /\ resp = Success(<<>>)
    /\ \E g \in DOMAIN games : games[g].status = "ended"

\* C7: in every reachable state of a room the field holds at most 15 cards.
C7_FieldAtMost15 ==
    \A g \in DOMAIN games : Len(games[g].field) <= 15

\* C8: when two Pick calls for the same three card ids of a room, which
\* form a set, have run side by side to their ends, one of them reports a
\* match, the other is answered as a failure, and the room is as a single
\* matched Pick leaves it: the three cards gone, the field refilled to 12
\* from the deck, the winner's score 1 and every other score 0.
C8_RacingPicksSerialize ==
    (/\ \A th \in Threads : calls[th].pc = "done"
     /\ is_valid_set(calls[1].card_ids[1], calls[1].card_ids[2], calls[1].card_ids[3]))
       => \E w \in Threads : \A l \in Threads \ {w} :
             LET room == games[calls[w].game_id]
             IN  /\ ReportsMatch(calls[w].resp)
                 /\ ~calls[l].resp.success
                 /\ Range(calls[w].card_ids) \cap RoomIds(room) = {}
                 /\ Len(room.field) = FieldTarget
                 /\ Len(room.deck) = DeckSize - InitialDeal - PickSize
                 /\ room.players[calls[w].access_token] = 1
                 /\ \A u \in DOMAIN room.players \ {calls[w].access_token} :
                        room.players[u] = 0

\* C9: a Pick whose id list does not hold exactly 3 ids, or holds an id that
\* is not in the field, is answered as a failure, never as a successful
\* call with matched = false.
C9_RejectedPickIsFailure ==
    [][\A t \in Tokens : \A ids \in PickRequestsOf(t) :
          (/\ resp'.success
           /\ CurrentRoomOf(t) # None
           /\ ~FoundThree(games[CurrentRoomOf(t)], ids))
             => ~Pick(t, ids)
      ]_vars

\* C10: a Pick that does not report a match leaves the deck, the field and
\* the status of its room as they were.
C10_UnmatchedPickLeavesRoom ==
    [][\A t \in Tokens : \A ids \in PickRequestsOf(t) :
          (/\ ~ReportsMatch(resp')
           /\ CurrentRoomOf(t) # None
           /\ Pick(t, ids))
             => /\ games'[CurrentRoomOf(t)].deck = games[CurrentRoomOf(t)].deck
                /\ games'[CurrentRoomOf(t)].field = games[CurrentRoomOf(t)].field
                /\ games'[CurrentRoomOf(t)].status = games[CurrentRoomOf(t)].status
      ]_vars

\* C11: an Add-Extra on a room whose deck has d cards moves k = min(3, d)
\* cards from the end of the deck to the end of the field, last card of the
\* deck first, and changes nothing else: the status, the scores and their
\* order, the other rooms and the identities stay as they were, and with an
\* empty deck the rooms are unchanged as a whole.
C11_AddExtraMovesUpToThree ==
    [][\A t \in Tokens :
          (resp' = Success(<<>>) /\ AddCards(t)) =>
             LET g == CurrentRoomOf(t)
                 d == Len(games[g].deck)
                 f == Len(games[g].field)
                 k == Min(3, d)
             IN  /\ games'[g].deck = SubSeq(games[g].deck, 1, d - k)
                 /\ games'[g].field
                      = [i \in 1..(f + k) |->
                            IF i <= f THEN games[g].field[i]
                            ELSE games[g].deck[d - (i - f) + 1]]
                 /\ games'[g].status = games[g].status
                 /\ games'[g].players = games[g].players
                 /\ games'[g].player_order = games[g].player_order
                 /\ \A o \in DOMAIN games \ {g} : games'[o] = games[o]
                 /\ DOMAIN games' = DOMAIN games
                 /\ users' = users /\ next_game_id' = next_game_id
                 /\ d = 0 => games' = games
      ]_vars

\* An Add-Extra has just been answered on a room that is still in play and
\* whose deck it left empty.
C11_Witness ==
    /\ resp = Success(<<>>)
    /\ \E g \in DOMAIN games :
          /\ games[g].deck = <<>>
          /\ games[g].status = "ongoing"
          /\ Len(games[g].field) > FieldTarget

\* C12: a room that a step creates has 12 cards in its field, 69 in its
\* deck, the status ongoing and no participant, whatever the rooms created
\* before it hold.
C12_NewRoomIsFresh ==
    [][\A g \in DOMAIN games' \ DOMAIN games :
          /\ Len(games'[g].field) = 12
          /\ Len(games'[g].deck) = 69
          /\ games'[g].status = "ongoing"
          /\ games'[g].players = <<>>
          /\ games'[g].player_order = <<>>
      ]_vars

\* A second room has just been created while the first one has
\* participants and has been played in.
C12_Witness ==
    /\ resp = Success([gameId |-> 1])
    /\ DOMAIN games = {0, 1}
    /\ games[1].players = <<>>
    /\ games[0].players # <<>>
    /\ 0 \in Played

\* C13: an EnterRoom with the id of an existing room points the caller at
\* that room and adds the caller to its scores with 0 when it is not there
\* yet; every score entry of every room is kept as it is, so re-entering
\* keeps the score and leaving a room keeps the entry there.  Nothing else
\* of the rooms and of the identities changes.
C13_EnterKeepsScores ==
    [][\A t \in Tokens : \A g \in DOMAIN games :
          (resp' = Success([gameId |-> g]) /\ EnterRoom(t, g)) =>
             /\ users'[t].current_game_id = g
             /\ users'[t].nickname = users[t].nickname
             /\ \A u \in DOMAIN users \ {t} : users'[u] = users[u]
             /\ DOMAIN users' = DOMAIN users
             /\ DOMAIN games' = DOMAIN games
             /\ \A o \in DOMAIN games :
                   /\ \A u \in DOMAIN games[o].players :
                         /\ u \in DOMAIN games'[o].players
                         /\ games'[o].players[u] = games[o].players[u]
                   /\ o # g => games'[o] = games[o]
             /\ DOMAIN games'[g].players = DOMAIN games[g].players \cup {t}
             /\ t \notin DOMAIN games[g].players => games'[g].players[t] = 0
             /\ games'[g].deck = games[g].deck
             /\ games'[g].field = games[g].field
             /\ games'[g].status = games[g].status
      ]_vars

\* A token has just entered again a room in which it holds a score that is
\* not 0, and it has an entry in another room as well.
C13_Witness ==
    \E t \in DOMAIN users : \E g, o \in DOMAIN games :
        /\ resp = Success([gameId |-> g])
        /\ users[t].current_game_id = g
        /\ o # g
        /\ t \in DOMAIN games[g].players
        /\ t \in DOMAIN games[o].players
        /\ games[g].players[t] # 0

\* A step that leaves the identities, the rooms and the id counter alone
\* and answers with the failure of the given message.
RejectedWith(message) ==
    /\ resp' = Failure(message)
    /\ UNCHANGED <<users, games, next_game_id>>

\* C14: a request turned down by the directory changes nothing.  With a
\* token that is not registered, every request but Register fails with
\* "Invalid access token"; with a registered token that has no current
\* room, GetField, Pick, Add-Extra and Scores fail with "User is not in a
\* game"; EnterRoom with an id that no room has fails with "Game not found".
C14_RejectedRequestChangesNothing ==
    [][\A t \in Tokens :
          /\ t \notin DOMAIN users =>
                /\ \A s \in 0..MaxShift :
                      CreateRoom(t, s) => RejectedWith(InvalidTokenText)
                /\ ListRooms(t) => RejectedWith(InvalidTokenText)
                /\ \A g \in 0..MaxRooms :
                      EnterRoom(t, g) => RejectedWith(InvalidTokenText)
                /\ GetField(t) => RejectedWith(InvalidTokenText)
                /\ \A ids \in PickRequestsOf(t) :
                      Pick(t, ids) => RejectedWith(InvalidTokenText)
                /\ AddCards(t) => RejectedWith(InvalidTokenText)
                /\ Scores(t) => RejectedWith(InvalidTokenText)
          /\ (t \in DOMAIN users /\ users[t].current_game_id = None) =>
                /\ GetField(t) => RejectedWith(NotInGameText)
                /\ \A ids \in PickRequestsOf(t) :
                      Pick(t, ids) => RejectedWith(NotInGameText)
                /\ AddCards(t) => RejectedWith(NotInGameText)
                /\ Scores(t) => RejectedWith(NotInGameText)
          /\ t \in DOMAIN users =>
                \A g \in (0..MaxRooms) \ DOMAIN games :
                   EnterRoom(t, g) => RejectedWith(GameNotFoundText)
      ]_vars

\* An EnterRoom with an unknown room id has just been turned down for a
\* token that is in a room with a score that is not 0.
C14_Witness ==
    /\ resp = Failure(GameNotFoundText)
    /\ \E t \in DOMAIN users :
          /\ users[t].current_game_id # None
          /\ games[users[t].current_game_id].players[t] # 0

\* The place of a token in the order in which tokens entered a room first.
EntryRank(room, t) == IndexOf(room.player_order, t)

\* The listings of the participants of a room that Scores may answer with:
\* each participant once, by score downwards, equal scores in the order of
\* first entry.
Rankings(room) ==
    {[i \in 1..Len(ord) |-> [name  |-> users[ord[i]].nickname,
                             score |-> room.players[ord[i]]]] :
        ord \in {o \in [1..Cardinality(DOMAIN room.players) -> DOMAIN room.players] :
                    /\ \A i, j \in DOMAIN o : i # j => o[i] # o[j]
                    /\ \A i, j \in DOMAIN o : i < j =>
                          \/ room.players[o[i]] > room.players[o[j]]
                          \/ /\ room.players[o[i]] = room.players[o[j]]
                             /\ EntryRank(room, o[i]) < EntryRank(room, o[j])}}

\* C15: the answer of Scores lists each participant of the caller's room
\* once with its name and score, by score downwards, participants of equal
\* score in the order in which they entered the room first.  That order is
\* the one the room records: a token is put at its end by its first
\* EnterRoom and the order changes in no other step.
C15_ScoresRankedStable ==
    /\ []((resp.success /\ "users" \in DOMAIN resp.payload) =>
             \E t \in DOMAIN users :
                /\ CurrentRoomOf(t) # None
                /\ resp.payload.users \in Rankings(games[CurrentRoomOf(t)]))
    /\ [][\A g \in DOMAIN games :
             \/ games'[g].player_order = games[g].player_order
             \/ \E t \in Tokens \ DOMAIN games[g].players :
                   /\ EnterRoom(t, g)
                   /\ games'[g].player_order = Append(games[g].player_order, t)
          ]_vars

\* Scores has just listed two participants of different names with the
\* same score, which is not 0.
C15_Witness ==
    /\ resp.success
    /\ "users" \in DOMAIN resp.payload
    /\ Len(resp.payload.users) = 2
    /\ resp.payload.users[1].score = resp.payload.users[2].score
    /\ resp.payload.users[1].score # 0
    /\ resp.payload.users[1].name # resp.payload.users[2].name

\* C16: when two CreateRoom calls have returned, whether one ran after the
\* other or their steps interleaved, they have returned two different ids,
\* the ids 0 and 1, and the room map holds a room under each of them.
C16_CreatedIdsDiffer ==
    (\A th \in Threads :
        /\ calls[th].pc = "done"
        /\ calls[th].resp.success
        /\ "gameId" \in DOMAIN calls[th].resp.payload)
      => /\ {calls[th].resp.payload.gameId : th \in Threads} = {0, 1}
         /\ DOMAIN games = {0, 1}
         /\ next_game_id = 2

\* C17: in every reachable state of a room no card id occurs twice in the
\* deck, twice in the field, or in the deck and in the field.
C17_NoDuplicateIds ==
    \A g \in DOMAIN games :
        /\ \A i, j \in DOMAIN games[g].deck :
              i # j => games[g].deck[i] # games[g].deck[j]
        /\ \A i, j \in DOMAIN games[g].field :
              i # j => games[g].field[i] # games[g].field[j]
        /\ Range(games[g].deck) \cap Range(games[g].field) = {}

\* A room that cards have been added to, that has been refilled after
\* matched Picks and that a Pick has taken a single card from.
C17_Witness ==
    \E g \in DOMAIN games :
        /\ Len(games[g].field) > FieldTarget
        /\ Removed(games[g]) > PickSize
        /\ Removed(games[g]) % PickSize # 0
        /\ games[g].deck # <<>>

\* The Pick requests of a token that name one card of the field of its
\* room three times.
TriplePicksOf(t) ==
    IF CurrentRoomOf(t) = None THEN {}
    ELSE {ids \in PickRequestsOf(t) :
             /\ Len(ids) = PickSize
             /\ ids[1] = ids[2] /\ ids[2] = ids[3]
             /\ ids[1] \in Range(games[CurrentRoomOf(t)].field)}

PointerOf(t) == IF t \in DOMAIN users THEN users[t].current_game_id ELSE None

\* C19: Pick, Add-Extra, GetField and Scores of a token act on the room its
\* pointer designates only.  A step changes at most one room; a room that
\* changes is entered in that step, or it is the room the pointer of a
\* token designates and the step is a Pick or an Add-Extra of that token;
\* and a score that a token holds in a room its pointer does not designate
\* stays as it is.
C19_OnlyCurrentRoomChanges ==
    [][/\ \A g \in DOMAIN games :
             games'[g] # games[g] =>
                /\ \A o \in DOMAIN games \ {g} : games'[o] = games[o]
                /\ \/ \E t \in Tokens : EnterRoom(t, g)
                   \/ \E t \in Tokens :
                         /\ PointerOf(t) = g
                         /\ \/ AddCards(t)
                            \/ \E ids \in PickRequestsOf(t) : Pick(t, ids)
       /\ \A g \in DOMAIN games : \A t \in DOMAIN games[g].players :
             PointerOf(t) # g => games'[g].players[t] = games[g].players[t]
      ]_vars

\* A Pick has just been answered for a token that holds a score that is
\* not 0 in the room it plays in and another one in a room it has left.
C19_Witness ==
    /\ resp.success
    /\ "isSet" \in DOMAIN resp.payload
    /\ \E t \in DOMAIN users : \E g, o \in DOMAIN games :
          /\ g # o
          /\ users[t].current_game_id = g
          /\ t \in DOMAIN games[g].players
          /\ t \in DOMAIN games[o].players
          /\ games[g].players[t] # 0
          /\ games[o].players[t] # 0
          /\ resp.payload.score = games[g].players[t]

\* C20: a Register returns a token that no identity has yet and leaves
\* every identity that exists, its nickname and its pointer, as it is.
C20_RegisterKeepsIdentities ==
    [][\A n \in BoardNicknames, p \in Passwords, t \in Tokens :
          (/\ resp'.success
           /\ "accessToken" \in DOMAIN resp'.payload
           /\ Register(n, p, t))
             => /\ t \notin DOMAIN users
                /\ \A u \in DOMAIN users : users'[u] = users[u]
      ]_vars

\* C21: when the participant of a room names a valid Set whenever the field
\* holds one and asks for extra cards whenever it holds none, and both
\* requests keep being served, the room reaches status ended.
InPlay == CurrentRoomOf(GamePlayer) = 0
RoomEnded == 0 \in DOMAIN games /\ games[0].status = "ended"
C21_DisciplinedPlayEnds == InPlay ~> RoomEnded

\* C22: once the calls in progress have returned, the current-room pointer
\* of every registered token is unset or names an existing room whose score
\* map holds the token; and no Pick, whenever it runs between the steps of
\* an EnterRoom, is answered with the failure of a missing score entry.
AllReturned == \A th \in Threads : calls[th].pc \in {"idle", "done"}
HasScoreEntry(t) ==
    \/ PointerOf(t) = None
    \/ /\ PointerOf(t) \in DOMAIN games
       /\ t \in DOMAIN games[PointerOf(t)].players
C22_PointerHasScoreEntry ==
    /\ AllReturned => \A t \in DOMAIN users : HasScoreEntry(t)
    /\ resp # Failure(KeyErrorText)

\* C23: a room whose deck is not empty has at least 12 cards in its field.
C23_FieldFullWhileDeckLasts ==
    \A g \in DOMAIN games :
        games[g].deck # <<>> => Len(games[g].field) >= FieldTarget

====
